---- MODULE Spec2Model ----
(***************************************************************************)
(* NOSTR -> Home Assistant bridge.                                         *)
(*                                                                         *)
(* State machines over one set of variables:                               *)
(*   Spec        relay_manager.py: the push handler (NostrEventHandler     *)
(*               .handle) and the poll path (RelayManager.fetch_latest)    *)
(*               sharing the seen-ledger, with the router callback awaited *)
(*               as a suspension point.                                    *)
(*   SpecStartup main.py: the fetch_latest call of run() beside those of   *)
(*               poll_loop.                                                *)
(*   SpecCache   mealplanner.py: MealPlannerHandler, called from the push  *)
(*               task and the poll task, with the sink call awaited as a   *)
(*               suspension point, and the wall-clock date.                *)
(*   SpecCacheHist  SpecCache with a longer history of its calls.          *)
(*   SpecRouter  event_router.py, models.py: EventRouter.handle_event as   *)
(*               the callback of the two tasks.                            *)
(* asyncio runs one task at a time and switches only at an await, so every *)
(* action is the code between two awaits.                                  *)
(***************************************************************************)
EXTENDS Integers, Sequences, FiniteSets, TLC

VARIABLES
    \* ---- relay_manager.py
    client,      \* RelayManager._client is set (start() has run)
    seen,        \* RelayManager._seen: the keys of the OrderedDict, oldest first
    pushPc,      \* push task: "idle" | "callback" (awaiting self._callback)
    pollPc,      \* poll task: "idle" | "fetching" | "callback"
    batch,       \* fetch_latest: the events of events.to_vec() not yet visited
    \* ---- history of the gateway (not read by the code)
    marks,       \* per id: how often it was inserted into the ledger
    evicted,     \* the ids a _prune_seen call has removed from the ledger
    fwdCount,    \* per id: how often the router callback was invoked with it
    dupDropped,  \* the paths ("push", "poll") that have dropped an id as seen
    justPruned,  \* the latest step ended with a _prune_seen call
    prePrune     \* the ledger as that call found it (<<>> when justPruned is false)

VARIABLES
    \* ---- mealplanner.py, and the wall clock
    today,       \* date.today(), as a day number
    plans,       \* MealPlannerHandler._plans: its values in dict order (the
                 \* key of a value is its "date" field)
    last_today,  \* MealPlannerHandler._last_today
    pc,          \* per task: "idle" | "sink" (awaiting self._ha.set_state)
    \* ---- history of the cache (not read by the code)
    last,        \* the call the latest step made: its arguments, the record
                 \* it found at the key of its argument, and the view it
                 \* handed to set_state (NoCall after any other step)
    rollCount    \* how often refresh_today returned True since today changed

gatewayVars == <<client, seen, pushPc, pollPc, batch,
                 marks, evicted, fwdCount, dupDropped,
                 justPruned, prePrune>>

cacheVars == <<today, plans, last_today, pc, last, rollCount>>

VARIABLES
    \* ---- longer history of the cache (not read by the code)
    issued,          \* the view most recently handed to set_state by
                     \* _update_todays_meal
    \* ---- kept by SpecCacheHist only
    lastStale,       \* date and updatedAt of the record most recently dropped
                     \* as stale
    observedBefore   \* at the latest change of the date the program had
                     \* observed a date already (_last_today was set)

histVars == <<issued, lastStale, observedBefore>>

VARIABLES
    \* ---- event_router.py, as the callback of the two tasks
    rpc,         \* per task: "idle" | "sink" (awaiting set_state, fire_event)
                 \* | "dead" (the task has ended)
    \* ---- history of the router (not read by the code)
    rlast        \* the handle_event call the latest step made: its arguments,
                 \* how it ended and the request it handed to the sink

routerVars == <<rpc, rlast>>

VARIABLES
    \* ---- main.py: the fetch_latest call run() makes itself at startup
    hydPc,       \* "waiting" (asyncio.sleep(3)) | "fetching" | "callback" | "done"
    hydBatch     \* that call's events not yet visited

startupVars == <<hydPc, hydBatch>>

vars == <<gatewayVars, cacheVars, histVars, routerVars, startupVars>>

----------------------------------------------------------------------------
\* Bounds of the model.

\* How many times in all an id may be inserted into the ledger again after a
\* prune evicted it.
MaxReinserts == 1

\* fetch_latest asks for at most 500 events; the model's batches are shorter.
MaxBatch == 2

\* RelayManager._max_seen, the cap of the ledger: 10_000 in the source. The
\* model runs the same code with a cap small enough to overflow.
max_seen == 4

\* The envelopes the relays can deliver, by id. An id is a hash over the
\* author and the content, so both are functions of the id.
Ids == 1 .. (max_seen + 1)

\* Envelope 1 is signed by another key than the publisher's and carries a
\* ciphertext copied from the publisher (it decrypts); envelope 2 is the
\* publisher's and does not decrypt; the others are the publisher's and decrypt.
ForeignIds == {1}
UndecryptableIds == {2}

\* event.author().to_hex() == publisher_public_key.to_hex()
Trusted(e) == e \notin ForeignIds
\* Nip44Crypto.decrypt does not raise: the ciphertext opens under the
\* conversation key of the bridge's secret key and the publisher's public key,
\* whoever signed the envelope.
Decrypts(e) == e \notin UndecryptableIds
TrustedValid == {e \in Ids : Trusted(e) /\ Decrypts(e)}

\* What fetch_events can return: Events holds each event once; any order.
Batches ==
    {b \in UNION {[1 .. n -> Ids] : n \in 0 .. MaxBatch} :
        \A i, j \in 1 .. Len(b) : i < j => b[i] # b[j]}

gatewayInit ==
    /\ client = FALSE
    /\ seen = <<>>
    /\ pushPc = "idle"
    /\ pollPc = "idle"
    /\ batch = <<>>
    /\ marks = [e \in Ids |-> 0]
    /\ evicted = {}
    /\ fwdCount = [e \in Ids |-> 0]
    /\ dupDropped = {}
    /\ justPruned = FALSE
    /\ prePrune = <<>>


----------------------------------------------------------------------------
\* relay_manager.py

\* RelayManager.start: self._client = Client(), then the subscription.
Start ==
    /\ ~client
    /\ client' = TRUE
    /\ justPruned' = FALSE
    /\ prePrune' = <<>>
    /\ UNCHANGED <<seen, pushPc, pollPc, batch, marks, evicted, fwdCount, dupDropped>>

\* A ledger whose membership test never finds an id.
InSeenNever(e, s) == FALSE

\* event_id in self._seen
InSeen(e, s) == \E i \in 1 .. Len(s) : s[i] = e

Range(s) == {s[i] : i \in 1 .. Len(s)}

\* The insertions of ids that had been inserted before, counted from the
\* insertion counts m.
RECURSIVE ReinsertsUpTo(_, _)
ReinsertsUpTo(m, n) ==
    IF n = 0 THEN 0
    ELSE ReinsertsUpTo(m, n - 1) + (IF m[n] > 1 THEN m[n] - 1 ELSE 0)

\* The relays deliver b while the model can still count the insertions: those
\* made so far, those of b, and those of the batch fetch_latest is working on.
Deliverable(b) ==
    LET s1 == Range(seen) \cup Range(b)
        m1 == [e \in Ids |-> IF e \in Range(b) \ Range(seen) THEN marks[e] + 1 ELSE marks[e]]
        m2 == [e \in Ids |-> IF e \in Range(batch) \ s1 THEN m1[e] + 1 ELSE m1[e]]
    IN ReinsertsUpTo(m2, max_seen + 1) <= MaxReinserts

\* popitem(last=False), n times.
RECURSIVE PopOldest(_, _)
PopOldest(s, n) == IF n = 0 THEN s ELSE PopOldest(Tail(s), n - 1)

\* A prune that evicts only down to the cap.
PruneSeenToCap(s) ==
    IF Len(s) > max_seen THEN PopOldest(s, Len(s) - max_seen) ELSE s

\* RelayManager._prune_seen
PruneSeen(s) ==
    IF Len(s) > max_seen
    THEN PopOldest(s, Len(s) - (max_seen \div 2))
    ELSE s

\* A handler that marks an id only after the author check and the decryption
\* have passed.
PushDeliverMarkLast(e) ==
    /\ client
    /\ pushPc = "idle"
    /\ Deliverable(<<e>>)
    /\ justPruned' = FALSE
    /\ prePrune' = <<>>
    /\ IF InSeen(e, seen)
       THEN /\ dupDropped' = dupDropped \cup {"push"}
            /\ UNCHANGED <<seen, marks, pushPc, fwdCount>>
       ELSE /\ UNCHANGED dupDropped
            /\ IF Trusted(e) /\ Decrypts(e)
               THEN /\ seen' = Append(seen, e)
                    /\ marks' = [marks EXCEPT ![e] = @ + 1]
                    /\ pushPc' = "callback"
                    /\ fwdCount' = [fwdCount EXCEPT ![e] = @ + 1]
               ELSE UNCHANGED <<seen, marks, pushPc, fwdCount>>
    /\ UNCHANGED <<client, pollPc, batch, evicted>>

\* NostrEventHandler.handle up to its await: the seen-check, the mark, the
\* author check, the decryption, and the call of the callback.
PushDeliver(e) ==
    /\ client
    /\ pushPc = "idle"
    /\ Deliverable(<<e>>)
    /\ justPruned' = FALSE
    /\ prePrune' = <<>>
    /\ IF InSeen(e, seen)
       THEN /\ dupDropped' = dupDropped \cup {"push"}
            /\ UNCHANGED <<seen, marks, pushPc, fwdCount>>
       ELSE /\ seen' = Append(seen, e)
            /\ UNCHANGED dupDropped
            /\ marks' = [marks EXCEPT ![e] = @ + 1]
            /\ IF Trusted(e) /\ Decrypts(e)
               THEN /\ pushPc' = "callback"
                    /\ fwdCount' = [fwdCount EXCEPT ![e] = @ + 1]
               ELSE UNCHANGED <<pushPc, fwdCount>>
    /\ UNCHANGED <<client, pollPc, batch, evicted>>

\* The callback of the push path returns or raises: handle is over.
PushCallbackDone ==
    /\ pushPc = "callback"
    /\ pushPc' = "idle"
    /\ justPruned' = FALSE
    /\ prePrune' = <<>>
    /\ UNCHANGED <<client, seen, pollPc, batch, marks, evicted, fwdCount, dupDropped>>

\* A loop that marks and forwards every event of the batch without asking the
\* ledger (the check made on a copy taken before the fetch).
RECURSIVE ScanBatchNoCheck(_, _, _)
ScanBatchNoCheck(s, m, b) ==
    IF b = <<>>
    THEN [seen |-> s, marks |-> m, fwd |-> 0, rest |-> <<>>, dup |-> FALSE]
    ELSE LET e == Head(b)
             s2 == Append(s, e)
             m2 == [m EXCEPT ![e] = @ + 1]
         IN IF ~Decrypts(e)
            THEN ScanBatchNoCheck(s2, m2, Tail(b))
            ELSE [seen |-> s2, marks |-> m2, fwd |-> e, rest |-> Tail(b), dup |-> FALSE]

\* The for loop of fetch_latest from one await to the next: it visits the
\* events of b in order, skips a seen id, marks an unseen one, skips one that
\* does not decrypt, and stops at the first one it forwards (fwd), or at the
\* end of the batch (fwd = 0).
RECURSIVE ScanBatch(_, _, _)
ScanBatch(s, m, b) ==
    IF b = <<>>
    THEN [seen |-> s, marks |-> m, fwd |-> 0, rest |-> <<>>, dup |-> FALSE]
    ELSE LET e == Head(b)
         IN IF InSeen(e, s)
            THEN [ScanBatch(s, m, Tail(b)) EXCEPT !.dup = TRUE]
            ELSE LET s2 == Append(s, e)
                     m2 == [m EXCEPT ![e] = @ + 1]
                 IN IF ~Decrypts(e)
                    THEN ScanBatch(s2, m2, Tail(b))
                    ELSE [seen |-> s2, marks |-> m2, fwd |-> e, rest |-> Tail(b), dup |-> FALSE]

\* The loop runs on from b; at the end of the batch _prune_seen runs and
\* fetch_latest returns.
PollContinue(b) ==
    LET r == ScanBatch(seen, marks, b)
    IN /\ batch' = r.rest
       /\ marks' = r.marks
       /\ dupDropped' = IF r.dup THEN dupDropped \cup {"poll"} ELSE dupDropped
       /\ IF r.fwd # 0
          THEN /\ seen' = r.seen
               /\ pollPc' = "callback"
               /\ fwdCount' = [fwdCount EXCEPT ![r.fwd] = @ + 1]
               /\ justPruned' = FALSE
               /\ prePrune' = <<>>
               /\ UNCHANGED evicted
          ELSE /\ seen' = PruneSeen(r.seen)
               /\ pollPc' = "idle"
               /\ justPruned' = TRUE
               /\ prePrune' = r.seen
               /\ evicted' = evicted \cup (Range(r.seen) \ Range(seen'))
               /\ UNCHANGED fwdCount

\* poll_loop calls fetch_latest: without a client it returns at once, with
\* one it awaits fetch_events.
PollStart ==
    /\ pollPc = "idle"
    /\ pollPc' = IF client THEN "fetching" ELSE "idle"
    /\ justPruned' = FALSE
    /\ prePrune' = <<>>
    /\ UNCHANGED <<client, seen, pushPc, batch, marks, evicted, fwdCount, dupDropped>>

\* fetch_events returns b.
PollFetched(b) ==
    /\ pollPc = "fetching"
    /\ Deliverable(b)
    /\ PollContinue(b)
    /\ UNCHANGED <<client, pushPc>>

\* fetch_events raises (a relay error): fetch_latest is left through the
\* exception, which poll_loop logs.
PollFetchFailed ==
    /\ pollPc = "fetching"
    /\ pollPc' = "idle"
    /\ justPruned' = FALSE
    /\ prePrune' = <<>>
    /\ UNCHANGED <<client, seen, pushPc, batch, marks, evicted, fwdCount, dupDropped>>

\* The callback of the poll path returns: the loop goes on.
PollCallbackReturn ==
    /\ pollPc = "callback"
    /\ PollContinue(batch)
    /\ UNCHANGED <<client, pushPc>>

\* The callback of the poll path raises: fetch_latest is left through the
\* exception, the rest of the batch and _prune_seen are skipped.
PollCallbackRaise ==
    /\ pollPc = "callback"
    /\ pollPc' = "idle"
    /\ batch' = <<>>
    /\ justPruned' = FALSE
    /\ prePrune' = <<>>
    /\ UNCHANGED <<client, seen, pushPc, marks, evicted, fwdCount, dupDropped>>

\* main.py, lines 88-96: run() creates the listener task and the poll task,
\* sleeps three seconds and then calls fetch_latest itself, once, while
\* poll_loop calls it after every poll_fallback_interval. The two calls are
\* separate coroutines over the same ledger.

startupInit ==
    /\ hydPc = "waiting"
    /\ hydBatch = <<>>

\* The for loop of run()'s fetch_latest call from one await to the next.
HydrateContinue(b) ==
    LET r == ScanBatch(seen, marks, b)
    IN /\ hydBatch' = r.rest
       /\ marks' = r.marks
       /\ dupDropped' = IF r.dup THEN dupDropped \cup {"poll"} ELSE dupDropped
       /\ IF r.fwd # 0
          THEN /\ seen' = r.seen
               /\ hydPc' = "callback"
               /\ fwdCount' = [fwdCount EXCEPT ![r.fwd] = @ + 1]
               /\ justPruned' = FALSE
               /\ prePrune' = <<>>
               /\ UNCHANGED evicted
          ELSE /\ seen' = PruneSeen(r.seen)
               /\ hydPc' = "done"
               /\ justPruned' = TRUE
               /\ prePrune' = r.seen
               /\ evicted' = evicted \cup (Range(r.seen) \ Range(seen'))
               /\ UNCHANGED fwdCount

\* The sleep is over and run() calls fetch_latest.
HydrateStart ==
    /\ hydPc = "waiting"
    /\ hydPc' = IF client THEN "fetching" ELSE "done"
    /\ justPruned' = FALSE
    /\ prePrune' = <<>>
    /\ UNCHANGED <<client, seen, pushPc, pollPc, batch, hydBatch,
                   marks, evicted, fwdCount, dupDropped>>

\* Its fetch_events returns b.
HydrateFetched(b) ==
    /\ hydPc = "fetching"
    /\ Deliverable(b)
    /\ HydrateContinue(b)
    /\ UNCHANGED <<client, pushPc, pollPc, batch>>

\* Its fetch_events raises: run() logs the exception.
HydrateFetchFailed ==
    /\ hydPc = "fetching"
    /\ hydPc' = "done"
    /\ justPruned' = FALSE
    /\ prePrune' = <<>>
    /\ UNCHANGED <<client, seen, pushPc, pollPc, batch, hydBatch,
                   marks, evicted, fwdCount, dupDropped>>

\* Its callback returns: the loop goes on.
HydrateCallbackReturn ==
    /\ hydPc = "callback"
    /\ HydrateContinue(hydBatch)
    /\ UNCHANGED <<client, pushPc, pollPc, batch>>

\* Its callback raises: run() logs the exception.
HydrateCallbackRaise ==
    /\ hydPc = "callback"
    /\ hydPc' = "done"
    /\ hydBatch' = <<>>
    /\ justPruned' = FALSE
    /\ prePrune' = <<>>
    /\ UNCHANGED <<client, seen, pushPc, pollPc, batch,
                   marks, evicted, fwdCount, dupDropped>>

----------------------------------------------------------------------------
\* mealplanner.py

\* _CACHE_FUTURE_DAYS
CACHE_FUTURE_DAYS == 30

\* How often the model counts refresh_today returning True within one date.
MaxRoll == 2

\* The date strings the model uses, and date.fromisoformat on them: the day
\* number of the date (days since 2023-12-31). Any other string raises
\* ValueError.
IsoDates == {"2024-01-01", "2024-01-31", "2024-02-01", "2024-03-02"}

FromIsoFormat(str) ==
    CASE str = "2024-01-01" -> 1
      [] str = "2024-01-31" -> 31
      [] str = "2024-02-01" -> 32
      [] str = "2024-03-02" -> 62

\* The dates at which the program looks at the clock.
Days == {FromIsoFormat(str) : str \in IsoDates}

\* date.today().strftime("%Y-%m-%d")
Strftime(d) == CHOOSE str \in IsoDates : FromIsoFormat(str) = d

\* _last_today = "" (no date observed yet)
NoDate == 0

\* updatedAt 0 stands for a missing or empty updatedAt (the code reads both as
\* ""), a larger number for a later timestamp string.
MaxTs == 2

TitleAt(ts) == IF ts % 2 = 0 THEN "Soup" ELSE "Salad"

\* The plan records the publisher sends: for two dates, with and without an id
\* field (id ""), and one whose date is no ISO date and one without a date
\* (date "").
Upserts ==
    {[date |-> d, updatedAt |-> ts, id |-> i, title |-> TitleAt(ts), deleted |-> FALSE] :
        d \in {"2024-01-31", "2024-02-01"}, ts \in 0 .. MaxTs, i \in {"", "a"}}
    \cup {[date |-> d, updatedAt |-> MaxTs, id |-> "a", title |-> TitleAt(MaxTs), deleted |-> FALSE] :
            d \in {"not-a-date", ""}}

\* The deletion markers: {"_deleted": true, ...}.
Markers ==
    {[date |-> d, updatedAt |-> ts, id |-> "a", title |-> "", deleted |-> TRUE] :
        d \in {"2024-01-31", "2024-02-01"}, ts \in 1 .. MaxTs}

\* The d tags, split at ":": plan a is the plan the records above belong to,
\* plan b a plan the cache never held.
TagA == <<"mmp", "plan", "a">>
TagB == <<"mmp", "plan", "b">>

\* The calls of handle_plan_event(data, d_tag).
PlanCalls ==
    {[data |-> u, d_tag |-> TagA] : u \in Upserts}
    \cup {[data |-> m, d_tag |-> g] : m \in Markers, g \in {TagA, TagB}}

NoPlan == [absent |-> TRUE]
NoCall == [call |-> "none"]
NoView == [state |-> "", date |-> ""]
Tasks == {"push", "poll"}

cacheInit ==
    /\ today = FromIsoFormat("2024-01-01")
    /\ plans = <<>>
    /\ last_today = NoDate
    /\ pc = [t \in Tasks |-> "idle"]
    /\ last = NoCall
    /\ rollCount = 0

\* self._plans.get(key)
PlansGet(p, key) ==
    IF \E i \in 1 .. Len(p) : p[i].date = key
    THEN p[CHOOSE i \in 1 .. Len(p) : p[i].date = key]
    ELSE NoPlan

\* self._plans[data["date"]] = data: a key the dict holds keeps its place.
PlansSet(p, data) ==
    IF \E i \in 1 .. Len(p) : p[i].date = data.date
    THEN [i \in 1 .. Len(p) |-> IF p[i].date = data.date THEN data ELSE p[i]]
    ELSE Append(p, data)

\* del self._plans[key]
PlansDel(p, key) == SelectSeq(p, LAMBDA r : r.date # key)

PlanKeys(p) == {p[i].date : i \in 1 .. Len(p)}

\* A window that starts tomorrow.
IsTodayOrFutureStrict(str, now) ==
    /\ str \in IsoDates
    /\ now < FromIsoFormat(str)
    /\ FromIsoFormat(str) <= now + CACHE_FUTURE_DAYS

\* MealPlannerHandler._is_today_or_future
IsTodayOrFuture(str, now) ==
    /\ str \in IsoDates
    /\ now <= FromIsoFormat(str)
    /\ FromIsoFormat(str) <= now + CACHE_FUTURE_DAYS

\* MealPlannerHandler._prune_old_plans
PruneOldPlans(p, now) == SelectSeq(p, LAMBDA r : IsTodayOrFuture(r.date, now))

\* MealPlannerHandler._find_date_by_dtag: "" stands for None.
FindDateByDtag(p, d_tag) ==
    LET plan_id == d_tag[Len(d_tag)]
    IN IF plan_id = "" THEN ""
       ELSE IF \E i \in 1 .. Len(p) : p[i].id = plan_id
            THEN p[CHOOSE i \in 1 .. Len(p) :
                       /\ p[i].id = plan_id
                       /\ \A j \in 1 .. (i - 1) : p[j].id # plan_id].date
            ELSE ""

\* A stale test that rejects nothing.
IsStaleNever(incoming_ts, existing_ts) == FALSE

\* A stale test that also rejects an equal timestamp.
IsStaleOrEqual(incoming_ts, existing_ts) ==
    incoming_ts # 0 /\ existing_ts # 0 /\ incoming_ts <= existing_ts

\* A stale test that reads a missing incoming updatedAt as the oldest.
IsStaleMissingOldest(incoming_ts, existing_ts) ==
    existing_ts # 0 /\ incoming_ts < existing_ts

\* The stale test of handle_plan_event, lines 52-53.
IsStale(incoming_ts, existing_ts) ==
    incoming_ts # 0 /\ existing_ts # 0 /\ incoming_ts < existing_ts

\* A view built from the first record of the cache, whatever its date.
TodaysViewFirst(p, now) ==
    IF p # <<>>
    THEN [state |-> p[1].title, date |-> Strftime(now)]
    ELSE [state |-> "No meal planned", date |-> Strftime(now)]

\* MealPlannerHandler._update_todays_meal up to its await: the view it hands
\* to set_state.
TodaysView(p, now) ==
    LET plan == PlansGet(p, Strftime(now))
    IN IF plan # NoPlan
       THEN [state |-> plan.title, date |-> Strftime(now)]
       ELSE [state |-> "No meal planned", date |-> Strftime(now)]

\* A derive that leaves the last-observed date to be set after the sink call.
UpdateTodaysMealRecordLater(t, p) ==
    /\ UNCHANGED last_today
    /\ pc' = [pc EXCEPT ![t] = "sink"]

\* _update_todays_meal is called by task t with the cache p.
UpdateTodaysMeal(t, p) ==
    /\ last_today' = today
    /\ pc' = [pc EXCEPT ![t] = "sink"]

\* A handler that goes on to _update_todays_meal on every path.
PlanEventResultDeriveAlways(p, data, d_tag, now) ==
    IF data.deleted
    THEN LET plan_date == FindDateByDtag(p, d_tag)
         IN IF plan_date # "" /\ plan_date \in PlanKeys(p)
            THEN [plans |-> PlansDel(p, plan_date), update |-> TRUE]
            ELSE [plans |-> p, update |-> TRUE]
    ELSE IF data.date = "" \/ ~IsTodayOrFuture(data.date, now)
         THEN [plans |-> p, update |-> TRUE]
         ELSE LET existing == PlansGet(p, data.date)
              IN IF existing # NoPlan /\ IsStale(data.updatedAt, existing.updatedAt)
                 THEN [plans |-> p, update |-> TRUE]
                 ELSE [plans |-> PruneOldPlans(PlansSet(p, data), now),
                       update |-> TRUE]

\* A handler whose deletion gives way to a stored record with a later
\* updatedAt.
PlanEventResultDeleteIfNewer(p, data, d_tag, now) ==
    IF data.deleted
    THEN LET plan_date == FindDateByDtag(p, d_tag)
         IN IF /\ plan_date # ""
               /\ plan_date \in PlanKeys(p)
               /\ ~IsStale(data.updatedAt, PlansGet(p, plan_date).updatedAt)
            THEN [plans |-> PlansDel(p, plan_date), update |-> TRUE]
            ELSE [plans |-> p, update |-> FALSE]
    ELSE IF data.date = ""
         THEN [plans |-> p, update |-> FALSE]
         ELSE IF ~IsTodayOrFuture(data.date, now)
              THEN [plans |-> p, update |-> FALSE]
              ELSE LET existing == PlansGet(p, data.date)
                   IN IF existing # NoPlan /\ IsStale(data.updatedAt, existing.updatedAt)
                      THEN [plans |-> p, update |-> FALSE]
                      ELSE [plans |-> PruneOldPlans(PlansSet(p, data), now),
                            update |-> TRUE]

\* MealPlannerHandler.handle_plan_event up to its await: the cache it leaves,
\* and whether it goes on to _update_todays_meal.
PlanEventResult(p, data, d_tag, now) ==
    IF data.deleted
    THEN LET plan_date == FindDateByDtag(p, d_tag)
         IN IF plan_date # "" /\ plan_date \in PlanKeys(p)
            THEN [plans |-> PlansDel(p, plan_date), update |-> TRUE]
            ELSE [plans |-> p, update |-> FALSE]
    ELSE IF data.date = ""
         THEN [plans |-> p, update |-> FALSE]
         ELSE IF ~IsTodayOrFuture(data.date, now)
              THEN [plans |-> p, update |-> FALSE]
              ELSE LET existing == PlansGet(p, data.date)
                   IN IF existing # NoPlan /\ IsStale(data.updatedAt, existing.updatedAt)
                      THEN [plans |-> p, update |-> FALSE]
                      ELSE [plans |-> PruneOldPlans(PlansSet(p, data), now),
                            update |-> TRUE]

\* A handler that derives only when the record it stored is today's.
HandlePlanEventTodayOnly(t, data, d_tag) ==
    LET r == PlanEventResult(plans, data, d_tag, today)
        derive == r.update /\ (data.deleted \/ data.date = Strftime(today))
    IN /\ pc[t] = "idle"
       /\ plans' = r.plans
       /\ IF derive
          THEN UpdateTodaysMeal(t, r.plans)
          ELSE UNCHANGED <<last_today, pc>>
       /\ last' = [call |-> "plan", data |-> data, d_tag |-> d_tag,
                   existing |-> PlansGet(plans, data.date),
                   view |-> IF derive THEN TodaysView(r.plans, today) ELSE NoView]
       /\ UNCHANGED <<today, rollCount>>

HandlePlanEvent(t, data, d_tag) ==
    LET r == PlanEventResult(plans, data, d_tag, today)
    IN /\ pc[t] = "idle"
       /\ plans' = r.plans
       /\ IF r.update
          THEN UpdateTodaysMeal(t, r.plans)
          ELSE UNCHANGED <<last_today, pc>>
       /\ last' = [call |-> "plan", data |-> data, d_tag |-> d_tag,
                   existing |-> PlansGet(plans, data.date),
                   view |-> IF r.update THEN TodaysView(r.plans, today) ELSE NoView]
       /\ UNCHANGED <<today, rollCount>>

\* A rollover check that derives whatever the last-observed date is.
RefreshTodayAlways ==
    /\ pc["poll"] = "idle"
    /\ UNCHANGED <<today, plans>>
    /\ UpdateTodaysMeal("poll", plans)
    /\ last' = [call |-> "refresh", result |-> TRUE,
                view |-> TodaysView(plans, today)]
    /\ rollCount' = IF rollCount < MaxRoll THEN rollCount + 1 ELSE rollCount

\* MealPlannerHandler.refresh_today up to its await (poll_loop calls it
\* through EventRouter.refresh_daily).
RefreshToday ==
    /\ pc["poll"] = "idle"
    /\ UNCHANGED <<today, plans>>
    /\ IF Strftime(today) # (IF last_today = NoDate THEN "" ELSE Strftime(last_today))
       THEN /\ UpdateTodaysMeal("poll", plans)
            /\ last' = [call |-> "refresh", result |-> TRUE,
                        view |-> TodaysView(plans, today)]
            /\ rollCount' = IF rollCount < MaxRoll THEN rollCount + 1 ELSE rollCount
       ELSE /\ last' = [call |-> "refresh", result |-> FALSE, view |-> NoView]
            /\ UNCHANGED <<last_today, pc, rollCount>>

\* set_state returns or raises: the call of task t is over.
SinkDone(t) ==
    /\ pc[t] = "sink"
    /\ pc' = [pc EXCEPT ![t] = "idle"]
    /\ last' = NoCall
    /\ UNCHANGED <<today, plans, last_today, rollCount>>

\* Midnight passes (once or several times) before the program looks again.
AdvanceDate(d) ==
    /\ d > today
    /\ today' = d
    /\ rollCount' = 0
    /\ last' = NoCall
    /\ UNCHANGED <<plans, last_today, pc>>

----------------------------------------------------------------------------
\* event_router.py, models.py, ha_client.py

\* entity_prefix
Prefix == "nostr"

\* The entity_id strings of the payloads: two plain ones, one with a hyphen,
\* one in upper case, the empty one, one that ends in a newline, and one of
\* 64 and one of 65 characters.
EntityIds ==
    {"temp_1", "a", "t-1", "T", "", "temp_1\n",
     "aaaaaaaaaaaaaaaaaaaaaaaaaaaaaaaaaaaaaaaaaaaaaaaaaaaaaaaaaaaaaaaa",
     "aaaaaaaaaaaaaaaaaaaaaaaaaaaaaaaaaaaaaaaaaaaaaaaaaaaaaaaaaaaaaaaaa"}

\* ENTITY_ID_PATTERN.match(v), the pattern being ^[a-z0-9_]{1,64}$: in Python
\* "$" also matches before a newline that ends the string.
EntityIdPatternMatch(v) ==
    v \in {"temp_1", "a", "temp_1\n",
           "aaaaaaaaaaaaaaaaaaaaaaaaaaaaaaaaaaaaaaaaaaaaaaaaaaaaaaaaaaaaaaaa"}

\* payload.entity_id.replace("_", " ").title(), on the ids that validate.
FriendlyName(v) ==
    CASE v = "temp_1" -> "Temp 1"
      [] v = "a" -> "A"
      [] v = "temp_1\n" -> "Temp 1\n"
      [] OTHER -> "Aaaaaaaaaaaaaaaaaaaaaaaaaaaaaaaaaaaaaaaaaaaaaaaaaaaaaaaaaaaaaaaa"

\* The attributes maps a payload can carry: any of these names, each with a
\* value of the caller's.
AttrNames == {"unit_of_measurement", "device_class", "friendly_name", "source", "room"}
CallerMaps == UNION {[S -> {"caller"}] : S \in SUBSET AttrNames}

\* The JSON objects of the plaintexts, as functions from their keys.
SensorRaws ==
    {[type |-> "sensor", entity_id |-> "temp_1", value |-> "72.5", unit |-> "C",
      device_class |-> "temperature", attributes |-> a] : a \in CallerMaps}
    \cup {[type |-> "sensor", entity_id |-> v, value |-> "72.5"] : v \in EntityIds}
    \cup {[type |-> "sensor", entity_id |-> "temp_1"],
          [type |-> "sensor", value |-> "72.5"]}

BinarySensorRaws ==
    {[type |-> "binary_sensor", entity_id |-> "a", state |-> FALSE,
      device_class |-> "door", attributes |-> a] : a \in CallerMaps}
    \cup {[type |-> "binary_sensor", entity_id |-> v, state |-> TRUE] : v \in EntityIds}
    \cup {[type |-> "binary_sensor", entity_id |-> "a"]}

NotificationRaws ==
    {[type |-> "notification", message |-> "m", severity |-> sv] :
        sv \in {"info", "critical", "loud"}}
    \cup {[type |-> "notification", message |-> "m", title |-> "t"],
          [type |-> "notification", title |-> "t"]}

OtherRaws ==
    {[entity_id |-> "temp_1", value |-> "72.5"],
     [type |-> "", entity_id |-> "temp_1", value |-> "72.5"],
     [type |-> "switch", entity_id |-> "temp_1", value |-> "72.5"]}

\* The plaintexts: text that json.loads rejects, a JSON array, or an object.
Plaintexts ==
    {[json |-> "invalid"], [json |-> "array"]}
    \cup {[json |-> "object", raw |-> r] :
            r \in SensorRaws \cup BinarySensorRaws \cup NotificationRaws \cup OtherRaws}

\* The first d tag of the envelope, split at ":" (<<>>: the envelope has none).
EventTags ==
    {<<>>, <<"bridge", "x">>, <<"mmp">>, <<"mmpx", "plan", "a">>,
     <<"mmp", "plan", "a">>, <<"mmp", "plan">>, <<"mmp", "meal", "a">>,
     <<"mmp", "plans", "a">>, <<"mmp", "">>}

\* The plaintexts of the plan events: a text that is no JSON, an array, a plan
\* record, a deletion marker, and a sensor payload.
PlanPlaintexts ==
    {[json |-> "invalid"], [json |-> "array"],
     [json |-> "object",
      raw |-> [date |-> "2024-01-31", updatedAt |-> 1, id |-> "a",
               title |-> TitleAt(1), deleted |-> FALSE]],
     [json |-> "object",
      raw |-> [date |-> "2024-01-31", updatedAt |-> 1, id |-> "a",
               title |-> "", deleted |-> TRUE]],
     [json |-> "object",
      raw |-> [type |-> "sensor", entity_id |-> "temp_1", value |-> "72.5"]]}

\* The calls of handle_event(plaintext, event): every plaintext without a d
\* tag or under the tag "bridge:x", and the plaintexts of the plan events
\* under every other tag.
RouterCalls ==
    {[d_tag |-> g, pt |-> pt] : g \in {<<>>, <<"bridge", "x">>}, pt \in Plaintexts}
    \cup {[d_tag |-> g, pt |-> pt] :
            g \in EventTags \ {<<>>, <<"bridge", "x">>}, pt \in PlanPlaintexts}

\* raw.get(key, default)
Get(raw, key, default) == IF key \in DOMAIN raw THEN raw[key] ELSE default

\* PAYLOAD_TYPE_MAP
PAYLOAD_TYPE_MAP == {"sensor", "binary_sensor", "notification"}

\* model_cls.model_validate(raw) does not raise.
ModelValidates(raw) ==
    CASE raw.type = "sensor" ->
            /\ "entity_id" \in DOMAIN raw
            /\ EntityIdPatternMatch(raw.entity_id)
            /\ "value" \in DOMAIN raw
      [] raw.type = "binary_sensor" ->
            /\ "entity_id" \in DOMAIN raw
            /\ EntityIdPatternMatch(raw.entity_id)
            /\ "state" \in DOMAIN raw
      [] raw.type = "notification" ->
            /\ "message" \in DOMAIN raw
            /\ Get(raw, "severity", "info") \in {"info", "warning", "error", "critical"}

\* A merge that spreads the caller's map last.
MergeAttrsCallerLast(caller, fixed) ==
    [n \in DOMAIN caller \cup DOMAIN fixed |->
        IF n \in DOMAIN caller THEN caller[n] ELSE fixed[n]]

\* The attrs of EventRouter._dispatch: the caller's map first, then the fixed
\* names.
MergeAttrs(caller, fixed) ==
    [n \in DOMAIN caller \cup DOMAIN fixed |->
        IF n \in DOMAIN fixed THEN fixed[n] ELSE caller[n]]

NoReq == [op |-> "none"]

\* EventRouter._dispatch on the payload validated from raw: the request it
\* hands to the sink.
Dispatch(raw) ==
    CASE raw.type = "sensor" ->
            [op |-> "set_state",
             entity_id |-> <<"sensor", Prefix, raw.entity_id>>,
             state |-> raw.value,
             attributes |->
                MergeAttrs(Get(raw, "attributes", <<>>),
                           [unit_of_measurement |-> Get(raw, "unit", ""),
                            device_class |-> Get(raw, "device_class", ""),
                            friendly_name |-> FriendlyName(raw.entity_id),
                            source |-> "nostr"])]
      [] raw.type = "binary_sensor" ->
            [op |-> "set_state",
             entity_id |-> <<"binary_sensor", Prefix, raw.entity_id>>,
             state |-> IF raw.state THEN "on" ELSE "off",
             attributes |->
                MergeAttrs(Get(raw, "attributes", <<>>),
                           [device_class |-> Get(raw, "device_class", ""),
                            friendly_name |-> FriendlyName(raw.entity_id),
                            source |-> "nostr"])]
      [] raw.type = "notification" ->
            [op |-> "fire_event",
             event_type |-> <<Prefix, "notification">>,
             data |-> [title |-> Get(raw, "title", ""),
                       message |-> raw.message,
                       severity |-> Get(raw, "severity", "info")]]

\* The plan record as handle_plan_event reads it from the JSON object:
\* data.get("_deleted"), data.get("date"), data.get("updatedAt", ""),
\* plan.get("id"), meal_data.get("title").
PlanRecord(raw) ==
    [date |-> Get(raw, "date", ""),
     updatedAt |-> Get(raw, "updatedAt", 0),
     id |-> Get(raw, "id", ""),
     title |-> Get(raw, "title", ""),
     deleted |-> Get(raw, "deleted", FALSE)]

\* A router that hands every event with the reserved prefix to the cache.
HandleMealplannerEventAnyKind(d_tag, pt) ==
    IF pt.json = "invalid"
    THEN [out |-> "drop", req |-> NoReq]
    ELSE [out |-> "plan", req |-> NoReq]

\* EventRouter._handle_mealplanner_event up to its await: "plan" stands for
\* the call of handle_plan_event.
HandleMealplannerEvent(d_tag, pt) ==
    IF pt.json = "invalid"
    THEN [out |-> "drop", req |-> NoReq]
    ELSE IF d_tag[2] = "plan"
         THEN [out |-> "plan", req |-> NoReq]
         ELSE [out |-> "drop", req |-> NoReq]

\* EventRouter.handle_event up to its await: it returns ("drop"), raises
\* ("raise": raw.get on a value that is no dict), or awaits the sink ("sink").
HandleEvent(d_tag, pt) ==
    IF Len(d_tag) >= 2 /\ d_tag[1] = "mmp"
    THEN HandleMealplannerEvent(d_tag, pt)
    ELSE IF pt.json = "invalid"
         THEN [out |-> "drop", req |-> NoReq]
         ELSE IF pt.json # "object"
              THEN [out |-> "raise", req |-> NoReq]
              ELSE IF Get(pt.raw, "type", "") = ""
                   THEN [out |-> "drop", req |-> NoReq]
                   ELSE IF pt.raw.type \notin PAYLOAD_TYPE_MAP
                        THEN [out |-> "drop", req |-> NoReq]
                        ELSE IF ~ModelValidates(pt.raw)
                             THEN [out |-> "drop", req |-> NoReq]
                             ELSE [out |-> "sink", req |-> Dispatch(pt.raw)]

routerInit ==
    /\ rpc = [t \in Tasks |-> "idle"]
    /\ rlast = NoCall

\* An exception leaves the callback of task t. poll_loop catches and logs it.
\* On the push task it leaves NostrEventHandler.handle into
\* handle_notifications of nostr_sdk, which start() awaits: the listener goes
\* on, or the exception ends it and with it the task.
Escaped(t) ==
    IF t = "poll" THEN {"idle"} ELSE {"idle", "dead"}

\* The callback of task t is called with a decrypted envelope. A plan event
\* goes to handle_plan_event, which raises on a value that is no dict
\* (data.get), and otherwise changes the cache and returns or awaits set_state
\* in _update_todays_meal.
RouterHandle(t, d_tag, pt) ==
    LET r == HandleEvent(d_tag, pt)
        raises == r.out = "raise" \/ (r.out = "plan" /\ pt.json # "object")
        pr == IF r.out = "plan" /\ ~raises
              THEN PlanEventResult(plans, PlanRecord(pt.raw), d_tag, today)
              ELSE [plans |-> plans, update |-> FALSE]
    IN /\ rpc[t] = "idle"
       /\ rlast' = [call |-> "event", d_tag |-> d_tag, pt |-> pt,
                    out |-> IF raises THEN "raise" ELSE r.out, req |-> r.req]
       /\ plans' = pr.plans
       /\ last_today' = IF pr.update THEN today ELSE last_today
       /\ rpc' \in {[rpc EXCEPT ![t] = nxt] :
                      nxt \in IF raises THEN Escaped(t)
                              ELSE IF r.out = "sink" \/ pr.update
                                   THEN {"sink"}
                                   ELSE {"idle"}}
       /\ UNCHANGED <<today, pc, last, rollCount>>

\* The sink call returns: True, or False after an HTTP error status or an
\* aiohttp.ClientError, which set_state and fire_event catch.
RouterSinkReturn(t) ==
    /\ rpc[t] = "sink"
    /\ rpc' = [rpc EXCEPT ![t] = "idle"]
    /\ rlast' = NoCall
    /\ UNCHANGED cacheVars

\* The sink call raises something else than aiohttp.ClientError (the total
\* timeout of the session raises asyncio.TimeoutError).
RouterSinkRaise(t) ==
    /\ rpc[t] = "sink"
    /\ rpc' \in {[rpc EXCEPT ![t] = nxt] : nxt \in Escaped(t)}
    /\ rlast' = NoCall
    /\ UNCHANGED cacheVars

----------------------------------------------------------------------------
\* The gateway on its own: the callback is whatever takes the payload.

NoStale == [date |-> "", updatedAt |-> 0]

histInit ==
    /\ issued = NoView
    /\ lastStale = NoStale
    /\ observedBefore = FALSE

Init == gatewayInit /\ cacheInit /\ histInit /\ routerInit /\ startupInit

Next ==
    \/ Start /\ UNCHANGED <<startupVars, cacheVars, histVars, routerVars>>
    \/ \E e \in Ids : PushDeliver(e) /\ UNCHANGED <<startupVars, cacheVars, histVars, routerVars>>
    \/ PushCallbackDone /\ UNCHANGED <<startupVars, cacheVars, histVars, routerVars>>
    \/ PollStart /\ UNCHANGED <<startupVars, cacheVars, histVars, routerVars>>
    \/ \E b \in Batches : PollFetched(b) /\ UNCHANGED <<startupVars, cacheVars, histVars, routerVars>>
    \/ PollFetchFailed /\ UNCHANGED <<startupVars, cacheVars, histVars, routerVars>>
    \/ PollCallbackReturn /\ UNCHANGED <<startupVars, cacheVars, histVars, routerVars>>
    \/ PollCallbackRaise /\ UNCHANGED <<startupVars, cacheVars, histVars, routerVars>>

Spec == Init /\ [][Next]_vars

\* The two fetch_latest coroutines: the one of run() and those of poll_loop.
NextStartup ==
    \/ Start /\ UNCHANGED <<startupVars, cacheVars, histVars, routerVars>>
    \/ PollStart /\ UNCHANGED <<startupVars, cacheVars, histVars, routerVars>>
    \/ \E b \in Batches : PollFetched(b) /\ UNCHANGED <<startupVars, cacheVars, histVars, routerVars>>
    \/ PollFetchFailed /\ UNCHANGED <<startupVars, cacheVars, histVars, routerVars>>
    \/ PollCallbackReturn /\ UNCHANGED <<startupVars, cacheVars, histVars, routerVars>>
    \/ PollCallbackRaise /\ UNCHANGED <<startupVars, cacheVars, histVars, routerVars>>
    \/ HydrateStart /\ UNCHANGED <<cacheVars, histVars, routerVars>>
    \/ \E b \in Batches : HydrateFetched(b) /\ UNCHANGED <<cacheVars, histVars, routerVars>>
    \/ HydrateFetchFailed /\ UNCHANGED <<cacheVars, histVars, routerVars>>
    \/ HydrateCallbackReturn /\ UNCHANGED <<cacheVars, histVars, routerVars>>
    \/ HydrateCallbackRaise /\ UNCHANGED <<cacheVars, histVars, routerVars>>

SpecStartup == Init /\ [][NextStartup]_vars

\* The step's call to set_state, if it made one, is the latest.
Issue ==
    issued' = IF last'.call # "none" /\ last'.view # NoView
              THEN last'.view ELSE issued

\* The cache on its own: the plan events are those the router hands it.
NextCache ==
    \/ \E t \in Tasks, c \in PlanCalls :
          HandlePlanEvent(t, c.data, c.d_tag) /\ UNCHANGED <<startupVars, gatewayVars, routerVars, lastStale, observedBefore>> /\ Issue
    \/ RefreshToday /\ UNCHANGED <<startupVars, gatewayVars, routerVars, lastStale, observedBefore>> /\ Issue
    \/ \E t \in Tasks : SinkDone(t) /\ UNCHANGED <<startupVars, gatewayVars, routerVars, lastStale, observedBefore>> /\ Issue
    \/ \E d \in Days : AdvanceDate(d) /\ UNCHANGED <<startupVars, gatewayVars, routerVars, lastStale, observedBefore>> /\ Issue

SpecCache == Init /\ [][NextCache]_vars

\* The router on its own, under the two tasks that call it.
NextRouter ==
    \/ \E t \in Tasks, c \in RouterCalls :
          RouterHandle(t, c.d_tag, c.pt) /\ UNCHANGED <<startupVars, gatewayVars, histVars>>
    \/ \E t \in Tasks : RouterSinkReturn(t) /\ UNCHANGED <<startupVars, gatewayVars, histVars>>
    \/ \E t \in Tasks : RouterSinkRaise(t) /\ UNCHANGED <<startupVars, gatewayVars, histVars>>

SpecRouter == Init /\ [][NextRouter]_vars

\* What a step of the cache adds to its longer history: the record it dropped
\* at the stale test, and at a change of the date whether a date had been
\* observed before.
History ==
    /\ lastStale' =
          IF /\ last'.call = "plan"
             /\ ~last'.data.deleted
             /\ IsTodayOrFuture(last'.data.date, today)
             /\ last'.existing # NoPlan
             /\ IsStale(last'.data.updatedAt, last'.existing.updatedAt)
          THEN [date |-> last'.data.date, updatedAt |-> last'.data.updatedAt]
          ELSE lastStale
    /\ observedBefore' = IF today' # today THEN last_today # NoDate
                         ELSE observedBefore

\* The cache with its longer history.
NextCacheHist ==
    \/ \E t \in Tasks, c \in PlanCalls :
          HandlePlanEvent(t, c.data, c.d_tag) /\ UNCHANGED <<startupVars, gatewayVars, routerVars>> /\ Issue /\ History
    \/ RefreshToday /\ UNCHANGED <<startupVars, gatewayVars, routerVars>> /\ Issue /\ History
    \/ \E t \in Tasks : SinkDone(t) /\ UNCHANGED <<startupVars, gatewayVars, routerVars>> /\ Issue /\ History
    \/ \E d \in Days : AdvanceDate(d) /\ UNCHANGED <<startupVars, gatewayVars, routerVars>> /\ Issue /\ History

SpecCacheHist == Init /\ [][NextCacheHist]_vars

----------------------------------------------------------------------------
\* Properties of the gateway (specification Spec).

\* C1, as stated: every envelope of the trusted sender that decrypts is
\* forwarded to the router callback at most once over the whole execution,
\* however often and over whichever path it is delivered, also when the ledger
\* is pruned between two deliveries.
C1_ForwardedOnceEver ==
    \A e \in TrustedValid : fwdCount[e] <= 1

\* C1, amended: an envelope of the trusted sender that decrypts, and whose id
\* no prune has evicted from the ledger, has been forwarded exactly once if it
\* was delivered (over either path, any number of times, under any
\* interleaving), and not at all if it was not.
C1_ForwardedOnceUnlessEvicted ==
    \A e \in TrustedValid :
        e \notin evicted =>
            fwdCount[e] = (IF e \in Range(seen) THEN 1 ELSE 0)

\* One envelope, and no other, was delivered over both paths: it went into the
\* ledger once, was forwarded once, and each path has dropped it as seen.
C1_Witness ==
    \E e \in TrustedValid :
        /\ marks = [f \in Ids |-> IF f = e THEN 1 ELSE 0]
        /\ fwdCount[e] = 1
        /\ dupDropped = {"push", "poll"}

\* C2, as stated: in every reachable state the ledger holds at most max_seen
\* ids.
C2_LedgerWithinCap ==
    Len(seen) <= max_seen

\* C3: a _prune_seen call that finds more than max_seen ids leaves exactly the
\* max_seen \div 2 most recently inserted ones, in their insertion order; a
\* call that finds at most max_seen ids leaves the ledger as it was.
C3_PruneResult ==
    justPruned =>
        seen = IF Len(prePrune) > max_seen
               THEN SubSeq(prePrune, Len(prePrune) - (max_seen \div 2) + 1, Len(prePrune))
               ELSE prePrune

\* A _prune_seen call has found the ledger over the cap.
C3_Witness ==
    /\ justPruned
    /\ Len(prePrune) > max_seen
    /\ Len(seen) = max_seen \div 2

\* C10, as stated: an envelope signed by another key than the trusted
\* publisher's is never forwarded to the router callback, on either path.
C10_ForeignNeverForwarded ==
    \A e \in ForeignIds : fwdCount[e] = 0

\* C14: the seen-check and the mark are one step on either path, so an id no
\* prune has evicted went into the ledger at most once, whichever task saw it
\* first and wherever the other task was suspended, and the router got it at
\* most as often as it went into the ledger: never from both tasks.
C14_CheckAndMarkAtomic ==
    \A e \in Ids :
        e \notin evicted => marks[e] <= 1 /\ fwdCount[e] <= marks[e]

\* The poll task has dropped an id as seen while the push task, which marked
\* and forwarded it, still waits for the router.
C14_Witness ==
    \E e \in TrustedValid :
        /\ marks = [f \in Ids |-> IF f = e THEN 1 ELSE 0]
        /\ fwdCount[e] = 1
        /\ pushPc = "callback"
        /\ dupDropped = {"poll"}
        /\ evicted = {}

----------------------------------------------------------------------------
\* Properties of the cache (specification SpecCache).

\* The handle_plan_event calls of one after the other, on the cache p.
ApplyBoth(p, first, second) ==
    PlanEventResult(PlanEventResult(p, first, TagA, today).plans,
                    second, TagA, today).plans

C6_OutOfWindowNeverPresent ==
    (/\ last.call = "plan"
     /\ ~last.data.deleted
     /\ \/ last.data.date \notin IsoDates
        \/ FromIsoFormat(last.data.date) <= today - (CACHE_FUTURE_DAYS + 1)
        \/ FromIsoFormat(last.data.date) >= today + (CACHE_FUTURE_DAYS + 1))
    => PlansGet(plans, last.data.date) # last.data

\* C7, as stated: right after every upsert that stored its record and right
\* after every refresh_today call, every key of the cache is a date within
\* [today - 30, today + 30].
C7_WindowAfterUpsertAndRefresh ==
    (\/ last.call = "refresh"
     \/ /\ last.call = "plan"
        /\ ~last.data.deleted
        /\ last.view # NoView)
    => \A k \in PlanKeys(plans) :
          /\ k \in IsoDates
          /\ today - CACHE_FUTURE_DAYS <= FromIsoFormat(k)
          /\ FromIsoFormat(k) <= today + CACHE_FUTURE_DAYS

\* C8, as stated: a deletion marker for a date the cache holds a record for,
\* arriving under the d tag of the plan, removes that date from the cache, and if the date is today the view handed
\* to the sink is "No meal planned".
C8_DeletionRemoves ==
    (/\ last.call = "plan"
     /\ last.data.deleted
     /\ last.d_tag = TagA
     /\ last.existing # NoPlan)
    => /\ last.data.date \notin PlanKeys(plans)
       /\ last.data.date = Strftime(today) => last.view.state = "No meal planned"

\* C9: a refresh_today call made while the last-observed date is today returns
\* False, hands nothing to the sink and leaves the cache, the last-observed
\* date and both tasks as they were; and within one date refresh_today returns
\* True at most once.
C9_RolloverIdempotent ==
    /\ [][(last'.call = "refresh" /\ last_today = today)
            => /\ last'.result = FALSE
               /\ last'.view = NoView
               /\ UNCHANGED <<plans, last_today, pc>>]_vars
    /\ [](rollCount <= 1)

\* A refresh_today call has returned False after one of the same date returned
\* True, with an upsert of the push task in between that still waits for the
\* sink.
C9_Witness ==
    /\ last.call = "refresh"
    /\ last.result = FALSE
    /\ rollCount = 1
    /\ plans # <<>>
    /\ pc["push"] = "sink"

\* C15, as stated: the record the cache holds for a date has an updatedAt that
\* is greater than or equal to that of every record for the date that was
\* dropped as stale before, the most recently dropped one among them.
C15_StoredNotOlderThanRejected ==
    (/\ lastStale # NoStale
     /\ lastStale.date \in PlanKeys(plans))
    => PlansGet(plans, lastStale.date).updatedAt >= lastStale.updatedAt

\* C16, as stated: an upsert whose date lies anywhere in [today - 30,
\* today + 30] and that finds no record of a greater updatedAt at its key
\* stores its record there.
C16_StoredAnywhereInWindow ==
    (/\ last.call = "plan"
     /\ ~last.data.deleted
     /\ last.data.date \in IsoDates
     /\ today - CACHE_FUTURE_DAYS <= FromIsoFormat(last.data.date)
     /\ FromIsoFormat(last.data.date) <= today + CACHE_FUTURE_DAYS
     /\ \/ last.existing = NoPlan
        \/ last.existing.updatedAt <= last.data.updatedAt)
    => PlansGet(plans, last.data.date) = last.data

\* C16, amended: an upsert whose date lies in [today, today + 30] and that
\* finds no record of a greater updatedAt at its key stores its record there,
\* in place of the one it found.
C16_StoredFromTodayOn ==
    (/\ last.call = "plan"
     /\ ~last.data.deleted
     /\ last.data.date \in IsoDates
     /\ today <= FromIsoFormat(last.data.date)
     /\ FromIsoFormat(last.data.date) <= today + CACHE_FUTURE_DAYS
     /\ \/ last.existing = NoPlan
        \/ last.existing.updatedAt <= last.data.updatedAt)
    => PlansGet(plans, last.data.date) = last.data

\* A record dated today has replaced an older record.
C16_Witness ==
    /\ last.call = "plan"
    /\ ~last.data.deleted
    /\ last.data.date = Strftime(today)
    /\ last.existing # NoPlan
    /\ last.existing.updatedAt < last.data.updatedAt
    /\ PlansGet(plans, last.data.date) = last.data

\* C17, as stated: after a change of the date (from a date the program had
\* observed) the first refresh_today call returns True: a call that returns
\* False comes after one that returned True for the same date.
C17_FirstCheckAfterChangeTrue ==
    (/\ observedBefore
     /\ last.call = "refresh"
     /\ last.result = FALSE)
    => rollCount >= 1

\* C18: every view handed to the sink is the projection of the record the
\* cache holds for today when _update_todays_meal runs ("No meal planned" if
\* it holds none); and when no call is in flight and the last-observed date is
\* today, the view most recently handed to the sink is the projection of the
\* record the cache holds for today now.
C18_ViewConsistent ==
    LET projection ==
            [state |-> IF Strftime(today) \in PlanKeys(plans)
                       THEN PlansGet(plans, Strftime(today)).title
                       ELSE "No meal planned",
             date |-> Strftime(today)]
    IN /\ (last.call # "none" /\ last.view # NoView) => last.view = projection
       /\ ((\A t \in Tasks : pc[t] = "idle") /\ last_today = today)
             => issued = projection

\* Soup was stored for today, then Salad with an older updatedAt was dropped:
\* with nothing in flight the view is Soup.
C18_Witness ==
    /\ last.call = "plan"
    /\ ~last.data.deleted
    /\ last.data.date = Strftime(today)
    /\ last.data.title = "Salad"
    /\ last.existing # NoPlan
    /\ last.existing.title = "Soup"
    /\ last.data.updatedAt < last.existing.updatedAt
    /\ PlansGet(plans, Strftime(today)) = last.existing
    /\ \A t \in Tasks : pc[t] = "idle"
    /\ last_today = today
    /\ issued.state = "Soup"

\* C19, as stated: an upsert that stored a record for another date than today
\* hands nothing to the sink.
C19_NoDeriveForOtherKey ==
    (/\ last.call = "plan"
     /\ ~last.data.deleted
     /\ last.data.date \in IsoDates
     /\ today < FromIsoFormat(last.data.date)
     /\ FromIsoFormat(last.data.date) <= today + CACHE_FUTURE_DAYS
     /\ \/ last.existing = NoPlan
        \/ last.existing.updatedAt <= last.data.updatedAt)
    => last.view = NoView

\* C19, amended: every upsert that stored its record hands one view to the
\* sink, whichever date the record is for: the view of today, built from the
\* record the cache holds for today ("No meal planned" if it holds none).
C19_DeriveAfterEveryStore ==
    (/\ last.call = "plan"
     /\ ~last.data.deleted
     /\ last.data.date \in IsoDates
     /\ today <= FromIsoFormat(last.data.date)
     /\ FromIsoFormat(last.data.date) <= today + CACHE_FUTURE_DAYS
     /\ \/ last.existing = NoPlan
        \/ last.existing.updatedAt <= last.data.updatedAt)
    => /\ last.view.date = Strftime(today)
       /\ last.view.state =
             (IF Strftime(today) \in PlanKeys(plans)
              THEN PlansGet(plans, Strftime(today)).title
              ELSE "No meal planned")
       /\ \E t \in Tasks : pc[t] = "sink"

\* An upsert has stored a record for a later date while the cache holds a
\* record for today: the sink is handed today's meal again.
C19_Witness ==
    /\ last.call = "plan"
    /\ ~last.data.deleted
    /\ last.data.date # Strftime(today)
    /\ PlansGet(plans, last.data.date) = last.data
    /\ Strftime(today) \in PlanKeys(plans)
    /\ last.view.state = PlansGet(plans, Strftime(today)).title

\* C20: an upsert without a date, with a date that is no ISO date or lies
\* outside [today, today + 30], or with an updatedAt older than that of the
\* record at its key, leaves the cache, the last-observed date and both tasks
\* as they were and hands nothing to the sink.
C20_RejectedUpsertNoEffect ==
    [][(/\ last'.call = "plan"
        /\ ~last'.data.deleted
        /\ \/ last'.data.date \notin IsoDates
           \/ FromIsoFormat(last'.data.date) < today
           \/ FromIsoFormat(last'.data.date) > today + CACHE_FUTURE_DAYS
           \/ /\ last'.existing # NoPlan
              /\ last'.data.updatedAt # 0
              /\ last'.data.updatedAt < last'.existing.updatedAt)
       => /\ UNCHANGED <<plans, last_today, pc>>
          /\ last'.view = NoView]_vars

\* A stale upsert was dropped on a date on which no view has been derived yet.
C20_Witness ==
    /\ last.call = "plan"
    /\ ~last.data.deleted
    /\ last.existing # NoPlan
    /\ last.data.updatedAt # 0
    /\ last.data.updatedAt < last.existing.updatedAt
    /\ last_today # today
    /\ last.view = NoView

----------------------------------------------------------------------------
\* Properties of the router (specification SpecRouter).

\* C11, as stated: whatever the envelopes carry and however the sink calls
\* end, neither the push task nor the poll task ends.
C11_TasksNeverEnd ==
    \A t \in Tasks : rpc[t] # "dead"

\* C12: the attributes of a set_state request hold the derived value under
\* each fixed name (unit_of_measurement for a sensor, device_class,
\* friendly_name, source = "nostr"), also when the payload's attributes map
\* has that name, and the payload's value under every other name of its map,
\* and nothing else.
C12_FixedAttributesWin ==
    (rlast.call = "event" /\ rlast.out = "sink" /\ rlast.req.op = "set_state")
    => LET raw == rlast.pt.raw
           caller == IF "attributes" \in DOMAIN raw THEN raw.attributes ELSE <<>>
           sent == rlast.req.attributes
           fixedNames == {"device_class", "friendly_name", "source"}
                         \cup (IF raw.type = "sensor"
                               THEN {"unit_of_measurement"} ELSE {})
       IN /\ DOMAIN sent = DOMAIN caller \cup fixedNames
          /\ sent["source"] = "nostr"
          /\ sent["device_class"] =
                (IF "device_class" \in DOMAIN raw THEN raw.device_class ELSE "")
          /\ sent["friendly_name"] = FriendlyName(raw.entity_id)
          /\ raw.type = "sensor" =>
                sent["unit_of_measurement"] =
                    (IF "unit" \in DOMAIN raw THEN raw.unit ELSE "")
          /\ \A n \in DOMAIN caller \ fixedNames : sent[n] = caller[n]

\* A sensor payload whose attributes map carries every fixed name and one
\* name of its own has gone to the sink.
C12_Witness ==
    /\ rlast.call = "event"
    /\ rlast.out = "sink"
    /\ rlast.pt.raw.type = "sensor"
    /\ "attributes" \in DOMAIN rlast.pt.raw
    /\ DOMAIN rlast.pt.raw.attributes = AttrNames
    /\ rlast.req.attributes["room"] = "caller"
    /\ rlast.req.attributes["unit_of_measurement"] = "C"

\* C13, as stated: for a JSON object under a d tag without the reserved
\* prefix, handle_event hands exactly one request to the sink (set_state on
\* sensor.<prefix>_<entity_id> or binary_sensor.<prefix>_<entity_id>, or
\* fire_event) when the type is one of the three and the payload is valid, its
\* entity_id one to sixty-four characters of [a-z0-9_]; and it
\* hands nothing to the sink when the type is missing or unknown or the
\* payload is not valid.
C13_GenericDispatch ==
    (/\ rlast.call = "event"
     /\ (Len(rlast.d_tag) < 2 \/ rlast.d_tag[1] # "mmp")
     /\ rlast.pt.json = "object")
    => LET raw == rlast.pt.raw
           type == IF "type" \in DOMAIN raw THEN raw.type ELSE ""
           idOk == /\ "entity_id" \in DOMAIN raw
                   /\ raw.entity_id \in
                        {"temp_1", "a",
                         "aaaaaaaaaaaaaaaaaaaaaaaaaaaaaaaaaaaaaaaaaaaaaaaaaaaaaaaaaaaaaaaa"}
           valid == CASE type = "sensor" -> idOk /\ "value" \in DOMAIN raw
                      [] type = "binary_sensor" -> idOk /\ "state" \in DOMAIN raw
                      [] type = "notification" ->
                            /\ "message" \in DOMAIN raw
                            /\ ("severity" \in DOMAIN raw =>
                                  raw.severity \in {"info", "warning", "error", "critical"})
                      [] OTHER -> FALSE
       IN IF valid
          THEN /\ rlast.out = "sink"
               /\ CASE type = "sensor" ->
                        /\ rlast.req.op = "set_state"
                        /\ rlast.req.entity_id = <<"sensor", Prefix, raw.entity_id>>
                    [] type = "binary_sensor" ->
                        /\ rlast.req.op = "set_state"
                        /\ rlast.req.entity_id = <<"binary_sensor", Prefix, raw.entity_id>>
                    [] type = "notification" -> rlast.req.op = "fire_event"
          ELSE rlast.out = "drop" /\ rlast.req = NoReq

----------------------------------------------------------------------------
\* Further properties of the gateway (specification Spec).

\* C21: an id the push handler is given is in the ledger when the handler
\* returns or awaits, also when its envelope is foreign or does not decrypt
\* (no step of the push handler, which leaves the poll task alone, ends with
\* its id outside the ledger); an id a step has marked is in the ledger
\* after the step unless the prune of that step evicted it; and while an id
\* is in the ledger no step on either path inserts it again (the check that
\* precedes the decryption) or calls the router with it.
C21_MarkPrecedesFilter ==
    [][\A e \in Ids :
         /\ e \in Range(seen) =>
               marks'[e] = marks[e] /\ fwdCount'[e] = fwdCount[e]
         /\ ~(/\ pollPc' = pollPc
              /\ batch' = batch
              /\ e \notin Range(seen')
              /\ PushDeliver(e))
         /\ marks'[e] > marks[e] => e \in Range(seen') \cup evicted']_vars

\* The foreign envelope was dropped by the push handler, is still in the
\* ledger, and a later fetch that returned it has dropped it at the
\* seen-check: no router call was made with it.
C21_Witness ==
    /\ seen = <<1>>
    /\ marks[1] = 1
    /\ fwdCount[1] = 0
    /\ dupDropped = {"poll"}

\* C22, as stated: when the callback for one envelope of a batch is over,
\* however it ended, the loop goes on: every envelope of the batch still to
\* be visited is visited (it is in the ledger afterwards, or evicted by the
\* prune, or waits behind the next callback), and the batch ends with the
\* prune of the ledger.
C22_BatchRunsToItsEnd ==
    [][pollPc = "callback" /\ (pollPc' # pollPc \/ batch' # batch)
       => /\ \A i \in 1 .. Len(batch) :
                batch[i] \in Range(seen') \cup evicted' \cup Range(batch')
          /\ pollPc' = "idle" => justPruned']_vars

----------------------------------------------------------------------------
\* Further properties of the router (specification SpecRouter).

\* C23: a handle_event call whose d tag starts with "mmp:" hands no request
\* of the generic handlers to the sink, whatever its plaintext; it gets to
\* handle_plan_event only when the second segment of the tag is "plan" and
\* the plaintext is JSON; and in every other case the cache and the
\* last-observed date are as before and the task awaits no sink call.
C23_ReservedPrefix ==
    [][(/\ rlast'.call = "event"
        /\ Len(rlast'.d_tag) >= 2
        /\ rlast'.d_tag[1] = "mmp")
       => /\ rlast'.req = NoReq
          /\ IF rlast'.d_tag[2] = "plan" /\ rlast'.pt.json # "invalid"
             THEN rlast'.out \in {"plan", "raise"}
             ELSE /\ rlast'.out = "drop"
                  /\ plans' = plans
                  /\ last_today' = last_today
                  /\ rpc' = rpc]_vars

\* A plan record under "mmp:plan:a" is in the cache, and the latest call,
\* with that record under "mmp:meal:a", was dropped.
C23_Witness ==
    /\ rlast.call = "event"
    /\ rlast.d_tag = <<"mmp", "meal", "a">>
    /\ rlast.pt.json = "object"
    /\ rlast.out = "drop"
    /\ plans # <<>>

----------------------------------------------------------------------------
\* Properties of the two fetch_latest coroutines (specification SpecStartup).

\* C24, as stated for the poll path: the handling of the next envelope of the
\* path does not start before the callback for the one before it has
\* returned, so at no time two callbacks of the path are awaited.
C24_OneCallbackOnPollPath ==
    ~(pollPc = "callback" /\ hydPc = "callback")

----------------------------------------------------------------------------
\* Further properties of the cache (specification SpecCache).

\* C25, as stated: once a deletion marker under the d tag mmp:plan:a has been
\* handled, the cache holds no record of plan a (no record whose id is "a"),
\* whatever upserts came before, those that stored plan a under two dates
\* included.
C25_NoRecordOfDeletedPlan ==
    (last.call = "plan" /\ last.data.deleted /\ last.d_tag = TagA)
    => \A i \in 1 .. Len(plans) : plans[i].id # "a"

\* C26: a deletion marker under mmp:plan:L, handled while the cache holds a
\* record with id L, removes the record the lookup by id finds (the first
\* one) and nothing else, and derives the view, whatever the updatedAt of the
\* marker and of the record; handled while the cache holds no record with id
\* L, it leaves the cache, the last-observed date and the tasks as they were
\* and hands nothing to the sink.
C26_DeletionIgnoresTimestamps ==
    [][(last'.call = "plan" /\ last'.data.deleted)
       => LET L == last'.d_tag[3]
              matches == {i \in 1 .. Len(plans) : plans[i].id = L}
          IN IF matches # {}
             THEN LET k == CHOOSE i \in matches : \A j \in matches : i <= j
                  IN /\ plans' = SelectSeq(plans, LAMBDA r : r.date # plans[k].date)
                     /\ Len(plans') = Len(plans) - 1
                     /\ last'.view = TodaysView(plans', today)
             ELSE /\ plans' = plans
                  /\ last'.view = NoView
                  /\ UNCHANGED <<last_today, pc>>]_vars

\* A marker with an updatedAt below that of the only record of its plan has
\* removed that record.
C26_Witness ==
    /\ last.call = "plan"
    /\ last.data.deleted
    /\ last.d_tag = TagA
    /\ last.existing # NoPlan
    /\ last.existing.id = "a"
    /\ last.data.updatedAt < last.existing.updatedAt
    /\ plans = <<>>

C28_RolloverRecordedFirst ==
    [][/\ (last'.call = "refresh" /\ last'.result)
            => last_today' = today /\ pc'["poll"] = "sink"
       /\ (\E t \in Tasks : pc[t] = "sink" /\ pc'[t] = "idle")
            => last_today' = last_today
       /\ (last'.call = "refresh" /\ last_today = today)
            => ~last'.result /\ last'.view = NoView /\ pc' = pc
       /\ (last'.call # "none" /\ last'.view # NoView)
            => \/ /\ last'.call = "plan"
                  /\ ~last'.data.deleted
                  /\ PlansGet(plans', last'.data.date) = last'.data
               \/ /\ last'.call = "plan"
                  /\ last'.data.deleted
                  /\ Len(plans') < Len(plans)
               \/ /\ last'.call = "refresh"
                  /\ last_today # today]_vars

\* The sink call of a rollover derive is over, no task awaits the sink, and a
\* later refresh_today call of the same date has returned False.
C28_Witness ==
    /\ last.call = "refresh"
    /\ ~last.result
    /\ rollCount = 1
    /\ last_today = today
    /\ \A t \in Tasks : pc[t] = "idle"
    /\ plans = <<>>

====
